---- MODULE Spec2Model ----
(***************************************************************************)
(* Outbound Olm session machine of mautrix.crypto.encrypt_olm               *)
(* (OlmEncryptionMachine): _create_outbound_sessions and                    *)
(* _encrypt_olm_event, run by concurrent asyncio tasks that share one       *)
(* crypto store.  Every `await` of the code is a step boundary; the code    *)
(* between two awaits runs atomically, as on an asyncio event loop.         *)
(***************************************************************************)
EXTENDS Integers, Sequences, FiniteSets, TLC

\* ---------------------------------------------------------------- bounds
\* total number of calls started by all tasks
MaxCalls == 2
\* largest number of one-time keys a response offers for one device
MaxOffered == 2
\* total number of transaction requests the application service receives
MaxRequests == 3
\* largest number of events in the body of one transaction request
MaxEvents == 2

\* ------------------------------------------------------------ the universe
Tasks == {"t1", "t2"}

\* iteration order of the dicts handed to the machine (insertion order)
UserOrder == <<"u1", "u2">>
DeviceOrder == <<"d1", "d2", "d3">>

DevicesOf == [u \in {"u1", "u2"} |-> IF u = "u1" THEN {"d1", "d2"} ELSE {"d3"}]

AllPairs == {<<u, d>> : u \in DOMAIN DevicesOf, d \in {"d1", "d2", "d3"}}
               \cap {p \in {"u1", "u2"} \X {"d1", "d2", "d3"} : p[2] \in DevicesOf[p[1]]}

\* DeviceIdentity records of the device directory (types.DeviceIdentity)
DeviceIdentity ==
  [p \in AllPairs |->
     [user_id |-> p[1], device_id |-> p[2],
      identity_key |-> IF p[2] = "d1" THEN "ik1" ELSE IF p[2] = "d2" THEN "ik2" ELSE "ik3",
      signing_key |-> IF p[2] = "d1" THEN "sk1" ELSE IF p[2] = "d2" THEN "sk2" ELSE "sk3"]]

IdentityKeys == {DeviceIdentity[p].identity_key : p \in AllPairs}

\* EncryptionKeyAlgorithm.SIGNED_CURVE25519
SIGNED_CURVE25519 == "signed_curve25519"

\* the local account and client
AccountIdentityKey == "ikLocal"
AccountSigningKey == "skLocal"
ClientMxid == "@local"
ClientDeviceId == "dLocal"

\* the `users` arguments: user_id -> {device_id -> DeviceIdentity}; a user may
\* be absent, present with no device, or present with some of its devices
Inputs ==
  UNION {[us -> SUBSET {"d1", "d2", "d3"}] : us \in SUBSET {"u1", "u2"}}

ValidInputs == {us \in Inputs : \A u \in DOMAIN us : us[u] \subseteq DevicesOf[u]}

\* the second task is the concurrent caller: its recipients are within u1/d1
SmallInputs ==
  {us \in ValidInputs : DOMAIN us \subseteq {"u1"} /\ \A u \in DOMAIN us : us[u] \subseteq {"d1"}}

InputsOf(t) == IF t = "t1" THEN ValidInputs ELSE SmallInputs

PairsOf(us) == {p \in AllPairs : p[1] \in DOMAIN us /\ p[2] \in us[p[1]]}

\* one_time_key_data of a claim response: the key, and the signature block
\* attributed to the device; signer is the key that made the signature
\* ("forged" = no key verifies it).  "skEvil" is a key of the responder, which
\* the response may carry along as its own trust anchor.
Signers == {"sk1", "sk2", "sk3", "skEvil", "forged"}
OneTimeKeyData == [key : {"otk"}, signer : Signers]

\* the offers a response can hold for device p: a dict key_id -> key data
Offers(p) ==
  {S \in SUBSET {o \in OneTimeKeyData :
                   o.signer \in {DeviceIdentity[p].signing_key, "skEvil", "forged"}} :
     Cardinality(S) <= MaxOffered}

\* ------------------------------------------------------------- dict helpers
EmptyMap == <<>>

MapPut(f, k, v) == [x \in DOMAIN f \cup {k} |-> IF x = k THEN v ELSE f[x]]

MapDel(f, k) == [x \in DOMAIN f \ {k} |-> f[x]]

UserSeq(us) == SelectSeq(UserOrder, LAMBDA u : u \in DOMAIN us)

DevSeq(ds) == SelectSeq(DeviceOrder, LAMBDA d : d \in ds)

\* ------------------------------------------------------------ session store
\* a Session object: sid tells the sessions made for one peer apart (0 = no
\* session), ratchet counts the advances of its state
NoSession == [sid |-> 0, peer |-> "none", ratchet |-> 0]

\* crypto_store: identity_key -> [count: sessions added under the key,
\* session: the one a read returns (the latest written)]
NoEntry == [count |-> 0, session |-> NoSession]

has_session(st, k) == st[k].count > 0

get_session(st, k) == st[k].session

add_session(st, k, s) == [st EXCEPT ![k] = [count |-> @.count + 1, session |-> s]]

update_session(st, k, s) == [st EXCEPT ![k] = [count |-> @.count, session |-> s]]

\* account.new_outbound_session(identity_key, one_time_key): a fresh session
\* bound to the peer; n is the number of sessions already made for the peer
new_outbound_session(k, otk, n) == [sid |-> n + 1, peer |-> k, ratchet |-> 0]

\* base.verify_signature_json(data, user_id, device_id, signing_key)
verify_signature_json(data, user_id, device_id, key) ==
  data.signer # "forged" /\ data.signer = key

\* DecryptedOlmEvent built for a recipient (the json handed to the session)
DecryptedOlmEvent(recipient) ==
  [sender |-> ClientMxid, sender_device |-> ClientDeviceId,
   keys |-> [ed25519 |-> AccountSigningKey],
   recipient |-> recipient.user_id,
   recipient_keys |-> [ed25519 |-> recipient.signing_key],
   type |-> "m.room_key", content |-> "content"]

NoPlaintext ==
  [sender |-> "none", sender_device |-> "none", keys |-> [ed25519 |-> "none"],
   recipient |-> "none", recipient_keys |-> [ed25519 |-> "none"],
   type |-> "none", content |-> "none"]

NoCiphertext == [sid |-> 0, peer |-> "none", n |-> 0, plaintext |-> NoPlaintext]

\* session.encrypt(plaintext): the ciphertext is made from the ratchet state
\* the object is in, and the object's ratchet advances
SessionEncrypt(s, plaintext) ==
  [ciphertext |-> [sid |-> s.sid, peer |-> s.peer, n |-> s.ratchet,
                   plaintext |-> plaintext],
   session |-> [s EXCEPT !.ratchet = @ + 1]]

\* faulty variant: the ciphertext is keyed by the sender's identity key
EncryptedOlmEventContentBySender(k, ct) ==
  [ciphertext |-> [x \in {AccountIdentityKey} |-> ct], sender_key |-> AccountIdentityKey]

\* EncryptedOlmEventContent(ciphertext={identity_key: ciphertext}, sender_key=...)
EncryptedOlmEventContent(k, ct) ==
  [ciphertext |-> [x \in {k} |-> ct], sender_key |-> AccountIdentityKey]

\* ======================================================================
\* mautrix.appservice.as_handler (AppServiceServerMixin): the transaction
\* endpoint PUT /transactions/{transaction_id}
\* ======================================================================
\* connections on which requests arrive; each runs one handler at a time
Conns == {"c1", "c2"}

\* values of match_info["transaction_id"]
TxnIds == {"x1", "x2"}

\* strings are sequences of characters
hs_token == <<"t", "k">>

\* str.lstrip(chars): leading characters that are in the set chars are removed
RECURSIVE lstrip(_, _)
lstrip(s, chars) ==
  IF s # <<>> /\ Head(s) \in chars THEN lstrip(Tail(s), chars) ELSE s

\* the characters of "Bearer "
BearerChars == {"B", "e", "a", "r", " "}

\* a query parameter or a header of a request: present or not, and its value
Absent == [present |-> FALSE, value |-> <<>>]

Given(v) == [present |-> TRUE, value |-> v]

\* request.rel_url.query["access_token"] of the requests that arrive
QueryTokens == {Absent, Given(hs_token), Given(<<"x">>)}

\* request.headers["Authorization"] of the requests that arrive
AuthHeaders ==
  {Absent,
   Given(<<"B", "e", "a", "r", "e", "r", " ">> \o hs_token),
   Given(hs_token),
   Given(<<"B", "e", "a", "r", "e", "r", " ", "x">>),
   Given(<<"a", "r", "e", " ">> \o hs_token)}

\* _check_token(request)
check_token(query, header) ==
  IF query.present
  THEN query.value = hs_token
  ELSE IF ~header.present
  THEN FALSE
  ELSE lstrip(header.value, BearerChars) = hs_token

\* faulty variant: an id of the processed set is not recognised
AlreadyProcessedNever(txns, transaction_id) == FALSE

\* `transaction_id in self.transactions`
AlreadyProcessed(txns, transaction_id) == transaction_id \in txns

\* self.event_handlers after one matrix_event_handler registration
event_handlers == {"handler"}

\* raw events of a transaction: a message event, a state event with its
\* state_key, a state event without state_key, one Event.deserialize rejects
\* with SerializerError, one on which it raises another exception
EventKinds == {"message", "state", "state_nokey", "unserializable", "crash"}

RECURSIVE SeqsUpTo(_, _)
SeqsUpTo(S, n) ==
  IF n = 0 THEN {<<>>}
  ELSE SeqsUpTo(S, n - 1) \cup
       {Append(q, e) : q \in {r \in SeqsUpTo(S, n - 1) : Len(r) = n - 1}, e \in S}

\* the bodies of the requests: not JSON, JSON that is not an object, an
\* object without "events", an object with a list of events
Bodies ==
  [kind : {"undecodable", "notdict", "noevents"}, events : {<<>>}]
    \cup [kind : {"events"}, events : SeqsUpTo(EventKinds, MaxEvents)]

\* handle_matrix_event(event): the number of handler tasks created
handle_matrix_event(kind) ==
  IF kind = "state_nokey" THEN 0 ELSE Cardinality(event_handlers)

\* handle_transaction(txn_id, events): the number of handler tasks created;
\* an exception other than SerializerError ends the loop
RECURSIVE handle_transaction(_)
handle_transaction(events) ==
  IF events = <<>> THEN 0
  ELSE IF Head(events) = "crash" THEN 0
  ELSE IF Head(events) = "unserializable" THEN handle_transaction(Tail(events))
  ELSE handle_matrix_event(Head(events)) + handle_transaction(Tail(events))

\* a connection without a request
NoRequest ==
  [pc |-> "idle", seq |-> 0, txn |-> "none", auth |-> FALSE, status |-> 0, sent |-> 0]

VARIABLES
  transactions, \* self.transactions, the processed transaction ids
  conn,       \* connection -> its current request: position of the handler,
              \*   number of the request, transaction_id, result of the token
              \*   check, status of the response, handler tasks it created
  dispatched, \* transaction_id -> requests that handed events of it to handlers
  nreq,       \* requests received so far
  store,      \* the shared crypto store
  made,       \* identity_key -> number of outbound sessions created so far
  ncalls,     \* calls started so far
  pc,         \* task -> position in the code
  users,      \* task -> the `users` argument of its call
  request,    \* task -> the local `request` dict
  ui,         \* task -> index of the user the first loop is at
  rem,        \* task -> devices of that user still to check
  reported,   \* task -> pairs for which has_session returned False
  nclaims,    \* task -> claim_keys requests issued by the call
  seen,       \* task -> response entries already iterated
  lastUser,   \* task -> user whose response entries are being iterated
  cur,        \* task -> pair whose session is being written / encrypted for
  newsess,    \* task -> the session object the task holds
  created,    \* task -> pairs whose session the call created and stored
  rejected,   \* task -> <<pair, signer>> of the key data skipped with "Invalid signature"
  accepted,   \* task -> <<pair, signer>> of the key data that passed verification
  outcome,    \* task -> how _create_outbound_sessions ended
  second,     \* task -> the call repeats the task's previous, returned call
              \*         and the store reports a session for each of its devices
  prevClaims, \* task -> claim requests the task's previous call issued
  etodo,      \* task -> recipients encrypt_for has not handled yet
  ciphertext, \* task -> the ciphertext session.encrypt returned
  result,     \* task -> identity_key -> envelope, the mapping encrypt_for returns
  eoutcome,   \* task -> how the encryption phase of the call ended
  nenc        \* identity_key -> completed _encrypt_olm_event calls

vars == <<store, made, ncalls, pc, users, request, ui, rem, reported, nclaims,
          seen, lastUser, cur, newsess, created, rejected, accepted, outcome,
          second, prevClaims, etodo, ciphertext, result, eoutcome, nenc,
          transactions, conn, dispatched, nreq>>

\* the state of the Olm machine
olmVars == <<store, made, ncalls, pc, users, request, ui, rem, reported, nclaims,
             seen, lastUser, cur, newsess, created, rejected, accepted, outcome,
             second, prevClaims, etodo, ciphertext, result, eoutcome, nenc>>

\* the state of the application service
asVars == <<transactions, conn, dispatched, nreq>>

estLocals == <<request, ui, rem, reported, nclaims, seen, lastUser, created,
               rejected, accepted, outcome>>

encLocals == <<etodo, ciphertext, result, eoutcome>>

NoPair == <<>>

Init ==
  /\ store = [k \in IdentityKeys |-> NoEntry]
  /\ made = [k \in IdentityKeys |-> 0]
  /\ ncalls = 0
  /\ pc = [t \in Tasks |-> "idle"]
  /\ users = [t \in Tasks |-> EmptyMap]
  /\ request = [t \in Tasks |-> EmptyMap]
  /\ ui = [t \in Tasks |-> 0]
  /\ rem = [t \in Tasks |-> <<>>]
  /\ reported = [t \in Tasks |-> {}]
  /\ nclaims = [t \in Tasks |-> 0]
  /\ seen = [t \in Tasks |-> {}]
  /\ lastUser = [t \in Tasks |-> "none"]
  /\ cur = [t \in Tasks |-> NoPair]
  /\ newsess = [t \in Tasks |-> NoSession]
  /\ created = [t \in Tasks |-> {}]
  /\ rejected = [t \in Tasks |-> {}]
  /\ accepted = [t \in Tasks |-> {}]
  /\ outcome = [t \in Tasks |-> "none"]
  /\ second = [t \in Tasks |-> FALSE]
  /\ prevClaims = [t \in Tasks |-> 0]
  /\ etodo = [t \in Tasks |-> <<>>]
  /\ ciphertext = [t \in Tasks |-> NoCiphertext]
  /\ result = [t \in Tasks |-> EmptyMap]
  /\ eoutcome = [t \in Tasks |-> "none"]
  /\ nenc = [k \in IdentityKeys |-> 0]
  /\ transactions = {}
  /\ conn = [c \in Conns |-> NoRequest]
  /\ dispatched = [x \in TxnIds |-> 0]
  /\ nreq = 0

\* the call has ended: its locals are gone; what the caller sees (how the
\* call ended) and the arguments it was called with are kept
Ended(t) ==
  /\ pc' = [pc EXCEPT ![t] = "done"]
  /\ request' = [request EXCEPT ![t] = EmptyMap]
  /\ ui' = [ui EXCEPT ![t] = 0]
  /\ rem' = [rem EXCEPT ![t] = <<>>]
  /\ reported' = [reported EXCEPT ![t] = {}]
  /\ seen' = [seen EXCEPT ![t] = {}]
  /\ lastUser' = [lastUser EXCEPT ![t] = "none"]
  /\ cur' = [cur EXCEPT ![t] = NoPair]
  /\ newsess' = [newsess EXCEPT ![t] = NoSession]
  /\ created' = [created EXCEPT ![t] = {}]
  /\ rejected' = [rejected EXCEPT ![t] = {}]
  /\ accepted' = [accepted EXCEPT ![t] = {}]
  /\ etodo' = [etodo EXCEPT ![t] = <<>>]
  /\ ciphertext' = [ciphertext EXCEPT ![t] = NoCiphertext]
  /\ result' = [result EXCEPT ![t] = EmptyMap]
  /\ UNCHANGED <<ncalls, users, nclaims, second, prevClaims>>

\* ------------------------------------------- _create_outbound_sessions, loop 1
\* faulty variant: the empty per-user entry is kept
PruneUserNever(req, u) == req

\* `if not request[user_id]: del request[user_id]`
PruneUser(req, u) == IF DOMAIN req[u] = {} THEN MapDel(req, u) ELSE req

\* faulty variant: the device is requested whatever has_session returned
AddToRequestAlways(req, u, d, has) ==
  [req EXCEPT ![u] = MapPut(req[u], d, SIGNED_CURVE25519)]

\* `if not has_session: request[user_id][device_id] = SIGNED_CURVE25519`
AddToRequest(req, u, d, has) ==
  IF ~has THEN [req EXCEPT ![u] = MapPut(req[u], d, SIGNED_CURVE25519)] ELSE req

\* the loop from the start of the i-th user up to its next await:
\* `request[user_id] = {}`, and users without devices are pruned at once
RECURSIVE EnterUser(_, _, _)
EnterUser(us, req, i) ==
  IF i > Len(UserSeq(us))
  THEN [request |-> req, ui |-> i, rem |-> <<>>]
  ELSE LET u == UserSeq(us)[i]
           req1 == MapPut(req, u, EmptyMap)
           devs == DevSeq(us[u])
       IN IF devs = <<>>
          THEN EnterUser(us, PruneUser(req1, u), i + 1)
          ELSE [request |-> req1, ui |-> i, rem |-> devs]

\* faulty variant: the empty batch is not detected
BatchNeverEmpty(req) == FALSE

\* `if not request: return`
BatchEmpty(req) == DOMAIN req = {}

\* the code after loop 1, up to its next await: return, or issue the claim
AfterLoop(t, us, l, n) ==
  IF l.ui <= Len(UserSeq(us))
  THEN /\ pc' = [pc EXCEPT ![t] = "check"]
       /\ nclaims' = [nclaims EXCEPT ![t] = n]
       /\ outcome' = [outcome EXCEPT ![t] = "none"]
  ELSE IF BatchEmpty(l.request)
  THEN /\ pc' = [pc EXCEPT ![t] = "encrypt"]
       /\ nclaims' = [nclaims EXCEPT ![t] = n]
       /\ outcome' = [outcome EXCEPT ![t] = "returned"]
  ELSE /\ pc' = [pc EXCEPT ![t] = "claim"]
       /\ nclaims' = [nclaims EXCEPT ![t] = n + 1]
       /\ outcome' = [outcome EXCEPT ![t] = "none"]

\* a task calls encrypt_for(users, ...), which calls
\* _create_outbound_sessions(users); runs up to the first has_session await
Start(t, us) ==
  /\ pc[t] \in {"idle", "done"}
  /\ ncalls < MaxCalls
  /\ ncalls' = ncalls + 1
  /\ users' = [users EXCEPT ![t] = us]
  /\ second' = [second EXCEPT ![t] =
                  /\ pc[t] = "done"
                  /\ outcome[t] = "returned"
                  /\ us = users[t]
                  /\ \A p \in PairsOf(us) :
                        has_session(store, DeviceIdentity[p].identity_key)]
  /\ prevClaims' = [prevClaims EXCEPT ![t] = nclaims[t]]
  /\ LET l == EnterUser(us, EmptyMap, 1)
     IN /\ request' = [request EXCEPT ![t] = l.request]
        /\ ui' = [ui EXCEPT ![t] = l.ui]
        /\ rem' = [rem EXCEPT ![t] = l.rem]
        /\ AfterLoop(t, us, l, 0)
  /\ reported' = [reported EXCEPT ![t] = {}]
  /\ seen' = [seen EXCEPT ![t] = {}]
  /\ lastUser' = [lastUser EXCEPT ![t] = "none"]
  /\ cur' = [cur EXCEPT ![t] = NoPair]
  /\ newsess' = [newsess EXCEPT ![t] = NoSession]
  /\ created' = [created EXCEPT ![t] = {}]
  /\ rejected' = [rejected EXCEPT ![t] = {}]
  /\ accepted' = [accepted EXCEPT ![t] = {}]
  /\ etodo' = [etodo EXCEPT ![t] = SelectSeq(
                  <<<<"u1", "d1">>, <<"u1", "d2">>, <<"u2", "d3">>>>,
                  LAMBDA p : p \in PairsOf(us))]
  /\ ciphertext' = [ciphertext EXCEPT ![t] = NoCiphertext]
  /\ result' = [result EXCEPT ![t] = EmptyMap]
  /\ eoutcome' = [eoutcome EXCEPT ![t] = "none"]
  /\ UNCHANGED <<store, made, nenc>>
  /\ UNCHANGED asVars

\* `await self.crypto_store.has_session(identity.identity_key)` returns
HasSessionReturn(t) ==
  /\ pc[t] = "check"
  /\ LET u == UserSeq(users[t])[ui[t]]
         d == Head(rem[t])
         has == has_session(store, DeviceIdentity[<<u, d>>].identity_key)
         req == AddToRequest(request[t], u, d, has)
         l == IF Tail(rem[t]) = <<>>
              THEN EnterUser(users[t], PruneUser(req, u), ui[t] + 1)
              ELSE [request |-> req, ui |-> ui[t], rem |-> Tail(rem[t])]
     IN /\ reported' = [reported EXCEPT ![t] = IF has THEN @ ELSE @ \cup {<<u, d>>}]
        /\ request' = [request EXCEPT ![t] = l.request]
        /\ ui' = [ui EXCEPT ![t] = l.ui]
        /\ rem' = [rem EXCEPT ![t] = l.rem]
        /\ AfterLoop(t, users[t], l, nclaims[t])
  /\ UNCHANGED <<store, made, ncalls, users, seen, lastUser, cur, newsess, created,
                 rejected, accepted, second, prevClaims, nenc>>
  /\ UNCHANGED encLocals
  /\ UNCHANGED asVars

\* has_session raises a store error: nothing catches it, the call ends
HasSessionFail(t) ==
  /\ pc[t] = "check"
  /\ Ended(t)
  /\ outcome' = [outcome EXCEPT ![t] = "StoreError:has_session"]
  /\ UNCHANGED <<store, made, eoutcome, nenc>>
  /\ UNCHANGED asVars

\* ------------------------------------------------- the claim and loop 2
\* `keys = await self.client.claim_keys(request)` returns a response.  The
\* response is an input the loop reads entry by entry; each entry is drawn
\* when the loop reaches it (seen = the entries read so far).
ClaimReturn(t) ==
  /\ pc[t] = "claim"
  /\ pc' = [pc EXCEPT ![t] = "process"]
  /\ UNCHANGED <<store, made, ncalls, users, cur, newsess, second, prevClaims, nenc>>
  /\ UNCHANGED estLocals
  /\ UNCHANGED encLocals
  /\ UNCHANGED asVars

\* faulty variant: the exception of claim_keys is swallowed and
\* _create_outbound_sessions returns as if nothing had to be done
ClaimFailSwallowed(t) ==
  /\ pc[t] = "claim"
  /\ pc' = [pc EXCEPT ![t] = "encrypt"]
  /\ outcome' = [outcome EXCEPT ![t] = "returned"]
  /\ UNCHANGED <<store, made, ncalls, users, request, ui, rem, reported, nclaims,
                 seen, lastUser, cur, newsess, created, rejected, accepted, second,
                 prevClaims, nenc>>
  /\ UNCHANGED encLocals
  /\ UNCHANGED asVars

\* claim_keys raises: the exception leaves _create_outbound_sessions
ClaimFail(t) ==
  /\ pc[t] = "claim"
  /\ Ended(t)
  /\ outcome' = [outcome EXCEPT ![t] = "KeyClaimFailed"]
  /\ UNCHANGED <<store, made, eoutcome, nenc>>
  /\ UNCHANGED asVars

\* `identity = users[user_id][device_id]` raises KeyError unless this holds
InInput(t, p) == p \in PairsOf(users[t])

\* faulty variant: the signature is checked against the key the response
\* carries
TrustAnchorFromResponse(t, p, data) == data.signer

\* the key the signature is checked against: `identity.signing_key`
TrustAnchor(t, p, data) == DeviceIdentity[p].signing_key

\* the entries the iteration of the response dict can reach next: devices
\* are grouped by user, and no key occurs twice
NextEntries(t) ==
  {p \in AllPairs \ seen[t] :
     p[1] = lastUser[t] \/ p[1] \notin {q[1] : q \in seen[t]}}

\* what one pass of the loop body does with the popped key data of entry p
Verdict(t, p, data) ==
  IF ~InInput(t, p) THEN "KeyError:users"
  ELSE IF ~verify_signature_json(data, p[1], p[2], TrustAnchor(t, p, data))
  THEN "invalid"
  ELSE "valid"

\* one pass of the loop body for response entry p whose one_time_keys dict is
\* `offers`, up to the await of add_session (or the exception)
ProcessEntry(t, p, offers) ==
  /\ pc[t] = "process"
  /\ p \in NextEntries(t)
  /\ offers \in Offers(p)
  /\ IF offers = {}
     THEN \* popitem() on an empty dict raises KeyError
          /\ Ended(t)
          /\ outcome' = [outcome EXCEPT ![t] = "KeyError:popitem"]
          /\ UNCHANGED made
     ELSE \E data \in offers :
          LET v == Verdict(t, p, data)
              k == DeviceIdentity[p].identity_key
          IN IF v = "KeyError:users"
             THEN /\ Ended(t)
                  /\ outcome' = [outcome EXCEPT ![t] = v]
                  /\ UNCHANGED made
             ELSE /\ seen' = [seen EXCEPT ![t] = @ \cup {p}]
                  /\ lastUser' = [lastUser EXCEPT ![t] = p[1]]
                  /\ IF v = "invalid"
                     THEN \* log.warning("Invalid signature ...")
                          /\ rejected' = [rejected EXCEPT ![t] = @ \cup {<<p, data.signer>>}]
                          /\ UNCHANGED <<pc, made, cur, newsess, accepted>>
                     ELSE /\ newsess' = [newsess EXCEPT ![t] =
                                           new_outbound_session(k, data.key, made[k])]
                          /\ made' = [made EXCEPT ![k] = @ + 1]
                          /\ cur' = [cur EXCEPT ![t] = p]
                          /\ accepted' = [accepted EXCEPT ![t] =
                                            @ \cup {<<p, data.signer>>}]
                          /\ pc' = [pc EXCEPT ![t] = "add"]
                          /\ UNCHANGED rejected
                  /\ UNCHANGED <<ncalls, users, request, ui, rem, reported, nclaims,
                                 created, outcome, second, prevClaims>>
                  /\ UNCHANGED encLocals
  /\ UNCHANGED <<store, eoutcome, nenc>>
  /\ UNCHANGED asVars

\* faulty variant: the session is stored per user, under the identity key of
\* the user's first device
AddSessionReturnPerUser(t) ==
  /\ pc[t] = "add"
  /\ LET first == <<cur[t][1], Head(DevSeq(DevicesOf[cur[t][1]]))>>
     IN store' = add_session(store, DeviceIdentity[first].identity_key, newsess[t])
  /\ created' = [created EXCEPT ![t] = @ \cup {cur[t]}]
  /\ pc' = [pc EXCEPT ![t] = "process"]
  /\ UNCHANGED <<made, ncalls, users, request, ui, rem, reported, nclaims, seen,
                 lastUser, cur, newsess, rejected, accepted, outcome, second,
                 prevClaims, nenc>>
  /\ UNCHANGED encLocals
  /\ UNCHANGED asVars

\* faulty variant: the loop goes on without the write of the session
AddSessionReturnNoWrite(t) ==
  /\ pc[t] = "add"
  /\ created' = [created EXCEPT ![t] = @ \cup {cur[t]}]
  /\ pc' = [pc EXCEPT ![t] = "process"]
  /\ UNCHANGED <<store, made, ncalls, users, request, ui, rem, reported, nclaims, seen,
                 lastUser, cur, newsess, rejected, accepted, outcome, second,
                 prevClaims, nenc>>
  /\ UNCHANGED encLocals
  /\ UNCHANGED asVars

\* `await self.crypto_store.add_session(identity.identity_key, session)` returns
AddSessionReturn(t) ==
  /\ pc[t] = "add"
  /\ store' = add_session(store, DeviceIdentity[cur[t]].identity_key, newsess[t])
  /\ created' = [created EXCEPT ![t] = @ \cup {cur[t]}]
  /\ pc' = [pc EXCEPT ![t] = "process"]
  /\ UNCHANGED <<made, ncalls, users, request, ui, rem, reported, nclaims, seen,
                 lastUser, cur, newsess, rejected, accepted, outcome, second,
                 prevClaims, nenc>>
  /\ UNCHANGED encLocals
  /\ UNCHANGED asVars

\* add_session raises a store error
AddSessionFail(t) ==
  /\ pc[t] = "add"
  /\ Ended(t)
  /\ outcome' = [outcome EXCEPT ![t] = "StoreError:add_session"]
  /\ UNCHANGED <<store, made, eoutcome, nenc>>
  /\ UNCHANGED asVars

\* the response has no further entry: _create_outbound_sessions returns
ProcessEnd(t) ==
  /\ pc[t] = "process"
  /\ pc' = [pc EXCEPT ![t] = "encrypt"]
  /\ outcome' = [outcome EXCEPT ![t] = "returned"]
  /\ UNCHANGED <<store, made, ncalls, users, request, ui, rem, reported, nclaims,
                 seen, lastUser, cur, newsess, created, rejected, accepted, second,
                 prevClaims, nenc>>
  /\ UNCHANGED encLocals
  /\ UNCHANGED asVars

\* ------------------------------------------------------ _encrypt_olm_event
\* _encrypt_olm_event(session, recipient, ...) up to its await of
\* update_session: the event is built and session.encrypt advances the
\* ratchet of the session object the caller passed
EncryptOlmEvent(t, session, p) ==
  LET r == SessionEncrypt(session, DecryptedOlmEvent(DeviceIdentity[p]))
  IN /\ ciphertext' = [ciphertext EXCEPT ![t] = r.ciphertext]
     /\ newsess' = [newsess EXCEPT ![t] = r.session]
     /\ cur' = [cur EXCEPT ![t] = p]
     /\ pc' = [pc EXCEPT ![t] = "persist"]

\* encrypt_for takes the next recipient: without a stored session it is left
\* out; with one, the session is read from the store and handed to
\* _encrypt_olm_event
EncryptFor(t) ==
  /\ pc[t] = "encrypt"
  /\ etodo[t] # <<>>
  /\ LET p == Head(etodo[t])
         k == DeviceIdentity[p].identity_key
     IN IF has_session(store, k)
        THEN /\ EncryptOlmEvent(t, get_session(store, k), p)
             /\ UNCHANGED etodo
        ELSE /\ etodo' = [etodo EXCEPT ![t] = Tail(@)]
             /\ UNCHANGED <<ciphertext, newsess, cur, pc>>
  /\ UNCHANGED <<store, made, ncalls, users, second, prevClaims, result, eoutcome, nenc>>
  /\ UNCHANGED estLocals
  /\ UNCHANGED asVars

\* faulty variant: the envelope is returned without the session being written
EncryptReturnUnpersisted(t) ==
  /\ pc[t] = "persist"
  /\ LET k == DeviceIdentity[cur[t]].identity_key
     IN /\ result' = [result EXCEPT ![t] =
                        MapPut(@, k, EncryptedOlmEventContent(k, ciphertext[t]))]
        /\ nenc' = [nenc EXCEPT ![k] = @ + 1]
  /\ etodo' = [etodo EXCEPT ![t] = Tail(@)]
  /\ pc' = [pc EXCEPT ![t] = "encrypt"]
  /\ UNCHANGED <<store, made, ncalls, users, cur, newsess, second, prevClaims,
                 ciphertext, eoutcome>>
  /\ UNCHANGED estLocals
  /\ UNCHANGED asVars

\* `await self.crypto_store.update_session(recipient.identity_key, session)`
\* returns, and the envelope is returned to encrypt_for
EncryptReturn(t) ==
  /\ pc[t] = "persist"
  /\ LET k == DeviceIdentity[cur[t]].identity_key
     IN /\ store' = update_session(store, k, newsess[t])
        /\ result' = [result EXCEPT ![t] =
                        MapPut(@, k, EncryptedOlmEventContent(k, ciphertext[t]))]
        /\ nenc' = [nenc EXCEPT ![k] = @ + 1]
  /\ etodo' = [etodo EXCEPT ![t] = Tail(@)]
  /\ pc' = [pc EXCEPT ![t] = "encrypt"]
  /\ UNCHANGED <<made, ncalls, users, cur, newsess, second, prevClaims, ciphertext,
                 eoutcome>>
  /\ UNCHANGED estLocals
  /\ UNCHANGED asVars

\* faulty variant: when update_session raises, the session of the recipient is
\* dropped from the store
EncryptFailDropsSession(t) ==
  /\ pc[t] = "persist"
  /\ store' = [store EXCEPT ![DeviceIdentity[cur[t]].identity_key] = NoEntry]
  /\ Ended(t)
  /\ eoutcome' = [eoutcome EXCEPT ![t] = "StoreError"]
  /\ UNCHANGED <<made, outcome, nenc>>
  /\ UNCHANGED asVars

\* update_session raises: the exception leaves _encrypt_olm_event and encrypt_for
EncryptFail(t) ==
  /\ pc[t] = "persist"
  /\ Ended(t)
  /\ eoutcome' = [eoutcome EXCEPT ![t] = "StoreError"]
  /\ UNCHANGED <<store, made, outcome, nenc>>
  /\ UNCHANGED asVars

\* every recipient has been handled: encrypt_for returns its mapping
Finish(t) ==
  /\ pc[t] = "encrypt"
  /\ etodo[t] = <<>>
  /\ Ended(t)
  /\ eoutcome' = [eoutcome EXCEPT ![t] = "ok"]
  /\ UNCHANGED <<store, made, outcome, nenc>>
  /\ UNCHANGED asVars

\* ------------------------------------------------------------ cancellation
\* the caller cancels the task: CancelledError is raised at the await the task
\* is suspended at and nothing catches it

\* faulty variant: a placeholder session was written for the first targeted
\* device before the claim was answered, and the cancellation leaves it behind
CancelBeforeResponseWrites(t) ==
  /\ pc[t] \in {"check", "claim"}
  /\ LET k == DeviceIdentity[Head(etodo[t])].identity_key
     IN store' = add_session(store, k, new_outbound_session(k, "otk", made[k]))
  /\ Ended(t)
  /\ outcome' = [outcome EXCEPT ![t] = "Cancelled"]
  /\ UNCHANGED <<made, eoutcome, nenc>>
  /\ UNCHANGED asVars

\* at `await has_session` (line 35) or `await claim_keys` (line 41)
CancelBeforeResponse(t) ==
  /\ pc[t] \in {"check", "claim"}
  /\ Ended(t)
  /\ outcome' = [outcome EXCEPT ![t] = "Cancelled"]
  /\ UNCHANGED <<store, made, eoutcome, nenc>>
  /\ UNCHANGED asVars

\* at `await add_session` (line 52): the session object exists in memory; the
\* write of the store has either landed already or is abandoned
CancelAdd(t, landed) ==
  /\ pc[t] = "add"
  /\ store' = IF landed
              THEN add_session(store, DeviceIdentity[cur[t]].identity_key, newsess[t])
              ELSE store
  /\ Ended(t)
  /\ outcome' = [outcome EXCEPT ![t] = "Cancelled"]
  /\ UNCHANGED <<made, eoutcome, nenc>>
  /\ UNCHANGED asVars

\* between establishment and an encryption, at the store read of encrypt_for
CancelBeforeEncrypt(t) ==
  /\ pc[t] = "encrypt"
  /\ etodo[t] # <<>>
  /\ Ended(t)
  /\ eoutcome' = [eoutcome EXCEPT ![t] = "Cancelled"]
  /\ UNCHANGED <<store, made, outcome, nenc>>
  /\ UNCHANGED asVars

\* at `await update_session` (line 25): the ratchet of the object in memory
\* has advanced; the write has either landed or is abandoned; no envelope
CancelPersist(t, landed) ==
  /\ pc[t] = "persist"
  /\ store' = IF landed
              THEN update_session(store, DeviceIdentity[cur[t]].identity_key, newsess[t])
              ELSE store
  /\ Ended(t)
  /\ eoutcome' = [eoutcome EXCEPT ![t] = "Cancelled"]
  /\ UNCHANGED <<made, outcome, nenc>>
  /\ UNCHANGED asVars

Next ==
  \E t \in Tasks :
    \/ \E us \in InputsOf(t) : Start(t, us)
    \/ HasSessionReturn(t)
    \/ HasSessionFail(t)
    \/ ClaimReturn(t)
    \/ ClaimFail(t)
    \/ \E p \in AllPairs : \E offers \in Offers(p) : ProcessEntry(t, p, offers)
    \/ AddSessionReturn(t)
    \/ AddSessionFail(t)
    \/ ProcessEnd(t)
    \/ EncryptFor(t)
    \/ EncryptReturn(t)
    \/ EncryptFail(t)
    \/ Finish(t)
    \/ CancelBeforeResponse(t)
    \/ \E landed \in BOOLEAN : CancelAdd(t, landed)
    \/ CancelBeforeEncrypt(t)
    \/ \E landed \in BOOLEAN : CancelPersist(t, landed)

Spec == Init /\ [][Next]_vars

\* ------------------------------------------------- _http_handle_transaction
\* a request arrives on connection c; the handler runs up to its first
\* await: token check, transaction_id, duplicate check
HttpHandleTransaction(c, transaction_id, query, header) ==
  /\ conn[c].pc \in {"idle", "done"}
  /\ nreq < MaxRequests
  /\ nreq' = nreq + 1
  /\ LET r == [NoRequest EXCEPT !.seq = nreq + 1, !.txn = transaction_id]
     IN conn' = [conn EXCEPT ![c] =
          IF ~check_token(query, header)
          THEN [r EXCEPT !.pc = "done", !.status = 401]
          ELSE IF AlreadyProcessed(transactions, transaction_id)
          THEN [r EXCEPT !.pc = "done", !.auth = TRUE, !.status = 200]
          ELSE [r EXCEPT !.pc = "json", !.auth = TRUE]]
  /\ UNCHANGED <<transactions, dispatched>>
  /\ UNCHANGED olmVars

\* `await request.json()` returns or raises; the rest of the handler has no
\* await that suspends (handle_transaction never awaits), so it runs at once
RequestJsonReturn(c, body) ==
  /\ conn[c].pc = "json"
  /\ IF body.kind \in {"undecodable", "noevents"}
     THEN \* JSONDecodeError, or KeyError of json["events"]
          /\ conn' = [conn EXCEPT ![c].pc = "done", ![c].status = 400]
          /\ UNCHANGED <<transactions, dispatched>>
     ELSE IF body.kind = "notdict"
     THEN \* json["events"] raises TypeError, which the handler does not catch
          /\ conn' = [conn EXCEPT ![c].pc = "done", ![c].status = 500]
          /\ UNCHANGED <<transactions, dispatched>>
     ELSE LET n == handle_transaction(body.events)
          IN /\ dispatched' = [dispatched EXCEPT ![conn[c].txn] =
                                  IF n > 0 THEN @ + 1 ELSE @]
             /\ transactions' = transactions \cup {conn[c].txn}
             /\ conn' = [conn EXCEPT ![c].pc = "done", ![c].status = 200,
                                     ![c].sent = n]
  /\ UNCHANGED nreq
  /\ UNCHANGED olmVars

NextAS ==
  \E c \in Conns :
    \/ \E x \in TxnIds : \E q \in QueryTokens : \E h \in AuthHeaders :
         HttpHandleTransaction(c, x, q, h)
    \/ \E body \in Bodies : RequestJsonReturn(c, body)

SpecAS == Init /\ [][NextAS]_vars

\* ======================================================================
\* Properties
\* ======================================================================

\* the claim request that asks for exactly the pairs of S
RequestFor(S) ==
  [u \in {p[1] : p \in S} |->
     [d \in {p[2] : p \in {q \in S : q[1] = u}} |-> SIGNED_CURVE25519]]

\* the call of task t is past the first loop
PastLoop(t) == pc[t] \in {"claim", "process", "add", "encrypt", "persist"}

\* C1: no outbound session is created for an identity key that already has
\* one: over all interleavings of the calls, at most one session is ever
\* created and stored per identity key.
C1_NoDuplicateSession ==
  \A k \in IdentityKeys : made[k] <= 1 /\ store[k].count <= 1

\* C2: the operations on one device's session are serialized: two callers
\* are never both between their ratchet advance and the completion of their
\* update_session for the same identity key, and when no encryption for k is
\* in flight the stored ratchet has advanced once per completed encryption.
C2_SerializedPerDevice ==
  /\ \A t \in Tasks : \A u \in Tasks \ {t} :
        pc[t] = "persist" /\ pc[u] = "persist" => cur[t] # cur[u]
  /\ \A k \in IdentityKeys :
        (\A t \in Tasks : pc[t] = "persist" => DeviceIdentity[cur[t]].identity_key # k)
          => store[k].session.ratchet = nenc[k]

\* C3: a call creates (and stores) a session for a device only from key data
\* whose signature verifies against the signing_key of the DeviceIdentity the
\* caller supplied for that device; key data signed by any other key is
\* rejected and leads to no session.
C3_TrustPinning ==
  \A t \in Tasks :
    /\ \A a \in accepted[t] :
          a[1] \in PairsOf(users[t]) /\ a[2] = DeviceIdentity[a[1]].signing_key
    /\ \A r \in rejected[t] : r[2] # DeviceIdentity[r[1]].signing_key
    /\ created[t] \subseteq {a[1] : a \in accepted[t]}
    /\ created[t] \cap {r[1] : r \in rejected[t]} = {}
    /\ pc[t] = "add" => cur[t] \in {a[1] : a \in accepted[t]}

C3_Witness ==
  \E t \in Tasks :
    /\ \E r \in rejected[t] : r[2] = "skEvil"
    /\ created[t] # {}

\* C4: per-device failures never abort the batch: establishment never ends
\* with an exception because one device of the response had no usable
\* one-time key or a key that failed verification.
C4_PerDeviceFailureNeverAborts ==
  \A t \in Tasks : outcome[t] # "KeyError:popitem"

\* C5: nothing is written to the store before the claim returns, and when the
\* claim request fails the failure reaches the caller and the step leaves the
\* session store exactly as it was.
C5_ClaimFailureLeavesStore ==
  /\ [](\A t \in Tasks : pc[t] \in {"check", "claim"} =>
          created[t] = {} /\ accepted[t] = {} /\ DOMAIN result[t] = {})
  /\ [][\A t \in Tasks :
          pc[t] = "claim" /\ pc'[t] # "claim" =>
            \/ pc'[t] = "process" /\ outcome'[t] = "none"
            \/ /\ pc'[t] = "done"
               /\ outcome'[t] = "KeyClaimFailed"
               /\ store' = store
               /\ made' = made
            \/ pc'[t] = "done" /\ outcome'[t] = "Cancelled"]_vars

C5_Witness ==
  \E t \in Tasks :
    /\ pc[t] = "done"
    /\ outcome[t] = "KeyClaimFailed"
    /\ \E k \in IdentityKeys : has_session(store, k)

\* C6: when a call repeats the caller's previous establishment (same device
\* set, the previous call returned) and the store reports a session for each
\* of its devices, the second call issues no claim request and creates no
\* session, so the two calls issue at most one claim request in total.
C6_SequentialIdempotence ==
  \A t \in Tasks :
    second[t] =>
      /\ nclaims[t] = 0
      /\ prevClaims[t] + nclaims[t] <= 1
      /\ created[t] = {}
      /\ accepted[t] = {}
      /\ pc[t] \notin {"claim", "process", "add"}

C6_Witness ==
  \E t \in Tasks :
    /\ second[t]
    /\ prevClaims[t] = 1
    /\ PairsOf(users[t]) # {}
    /\ pc[t] = "done"
    /\ outcome[t] = "returned"

\* C7: a call issues at most one claim request, and the request holds exactly
\* the pairs for which has_session returned False, each mapped to
\* signed_curve25519; no user is mapped to an empty device dict.
C7_OneBatchedRequest ==
  \A t \in Tasks :
    /\ nclaims[t] <= 1
    /\ pc[t] \in {"claim", "process", "add"} =>
         /\ nclaims[t] = 1
         /\ request[t] = RequestFor(reported[t])
         /\ \A u \in DOMAIN request[t] : DOMAIN request[t][u] # {}

C7_Witness ==
  \E t \in Tasks :
    /\ pc[t] = "claim"
    /\ \E u \in DOMAIN users[t] : users[t][u] # {} /\ u \notin DOMAIN request[t]
    /\ \E u \in DOMAIN request[t] : DOMAIN request[t][u] # users[t][u]

\* C8: when no device of the input lacks a session (no recipient, users
\* without devices, or a session for every device) establishment returns
\* without a claim request and without a store write, and encrypt_for on a
\* recipient set without devices returns an empty mapping.
C8_EmptyBatchNoOp ==
  \A t \in Tasks :
    /\ PastLoop(t) /\ reported[t] = {} =>
         /\ pc[t] \in {"encrypt", "persist"}
         /\ nclaims[t] = 0
         /\ created[t] = {}
         /\ accepted[t] = {}
    /\ pc[t] # "idle" /\ PairsOf(users[t]) = {} =>
         /\ pc[t] \in {"encrypt", "done"}
         /\ nclaims[t] = 0
         /\ DOMAIN result[t] = {}
         /\ pc[t] = "done" => outcome[t] = "returned" /\ eoutcome[t] = "ok"

C8_Witness ==
  \E t \in Tasks :
    /\ pc[t] = "encrypt"
    /\ reported[t] = {}
    /\ PairsOf(users[t]) # {}
    /\ \E u \in DOMAIN users[t] : users[t][u] = {}

\* C9: _encrypt_olm_event returns an envelope only with the ratchet-advanced
\* session written by update_session (no session is added): at the return the
\* store holds the post-encryption state; when update_session fails the call
\* ends with the store error and returns no envelope.
C9_RatchetPersistedBeforeReturn ==
  [][\A t \in Tasks :
       pc[t] = "persist" /\ pc'[t] # "persist" =>
         LET k == DeviceIdentity[cur[t]].identity_key
         IN \/ /\ pc'[t] = "encrypt"
               /\ k \in DOMAIN result'[t]
               /\ store'[k].session = newsess[t]
               /\ store'[k].session.sid = result'[t][k].ciphertext[k].sid
               /\ store'[k].session.ratchet = result'[t][k].ciphertext[k].n + 1
               /\ store'[k].count = store[k].count
            \/ /\ pc'[t] = "done"
               /\ eoutcome'[t] = "StoreError"
               /\ DOMAIN result'[t] = {}
               /\ store' = store
            \/ /\ pc'[t] = "done"
               /\ eoutcome'[t] = "Cancelled"
               /\ DOMAIN result'[t] = {}]_vars

C9_Witness ==
  \E t \in Tasks : \E k \in DOMAIN result[t] :
    /\ store[k].session.ratchet = 2
    /\ result[t][k].ciphertext[k].n = 1

\* C10: a has_session read failure is treated as "no session": establishment
\* never ends because the existence check raised.
C10_ReadFailureMeansNoSession ==
  \A t \in Tasks : outcome[t] # "StoreError:has_session"

\* a step taken by task t (every action changes the position of its task, or
\* the loop cursor of its first loop)
StepOf(t) == pc'[t] # pc[t] \/ rem'[t] # rem[t] \/ ui'[t] # ui[t]

\* C11: cancelling a call at any point up to and including the pending
\* key-claim request has no side effects: every step the call takes up to
\* that point, and the cancellation itself, leaves the Session Store (and the
\* account's sessions) as it was; the call holds no session, has created and
\* encrypted nothing.
C11_CancelBeforeClaimNoSideEffects ==
  /\ [](\A t \in Tasks : pc[t] \in {"check", "claim"} =>
          /\ newsess[t] = NoSession
          /\ created[t] = {}
          /\ accepted[t] = {}
          /\ DOMAIN result[t] = {})
  /\ [][\A t \in Tasks :
          /\ StepOf(t)
          /\ \/ pc[t] \in {"idle", "done"} /\ pc'[t] \in {"check", "claim"}
             \/ pc[t] \in {"check", "claim"} /\ pc'[t] \in {"check", "claim"}
             \/ pc[t] \in {"check", "claim"} /\ outcome'[t] = "Cancelled"
          => store' = store /\ made' = made]_vars

\* a call was cancelled while its key claim was pending, and no session exists
C11_Witness ==
  \E t \in Tasks :
    /\ pc[t] = "done"
    /\ outcome[t] = "Cancelled"
    /\ nclaims[t] = 1
    /\ \A k \in IdentityKeys : made[k] = 0 /\ ~has_session(store, k)

\* C12: cancelling a call after new_outbound_session has run for a device but
\* before the encrypt step leaves that session persisted in the Session Store
\* (a later has_session is true and the stored session is the created one),
\* and no cancellation removes a session the store already held.
C12_CancelAfterCreateKeepsSession ==
  [][\A t \in Tasks :
       /\ (pc[t] = "add" /\ outcome'[t] = "Cancelled" =>
             LET k == DeviceIdentity[cur[t]].identity_key
             IN has_session(store', k) /\ get_session(store', k) = newsess[t])
       /\ (StepOf(t) /\ (outcome'[t] = "Cancelled" \/ eoutcome'[t] = "Cancelled") =>
             \A k \in IdentityKeys :
                has_session(store, k) => has_session(store', k))]_vars

\* C13: a session is available to the Encryptor only after its add_session
\* write has completed: a device counts as established by a call only once
\* the store holds a session for its key; every session handed to the
\* Encryptor is the one the store holds at that moment under a key that an
\* add_session write has filled; while an encryption is under way the store
\* holds a session for its key.
C13_PersistedBeforeAvailable ==
  /\ [](\A t \in Tasks :
          /\ \A p \in created[t] : has_session(store, DeviceIdentity[p].identity_key)
          /\ pc[t] = "persist" =>
                /\ has_session(store, DeviceIdentity[cur[t]].identity_key)
                /\ newsess[t].peer = DeviceIdentity[cur[t]].identity_key)
  /\ [][\A t \in Tasks :
          pc[t] = "encrypt" /\ pc'[t] = "persist" =>
            LET k == DeviceIdentity[cur'[t]].identity_key
            IN /\ store[k].count > 0
               /\ ciphertext'[t].sid = get_session(store, k).sid
               /\ ciphertext'[t].n = get_session(store, k).ratchet
               /\ newsess'[t].sid = get_session(store, k).sid]_vars

\* a call encrypts with a session it has created and stored itself
C13_Witness ==
  \E t \in Tasks :
    /\ pc[t] = "persist"
    /\ cur[t] \in created[t]
    /\ ciphertext[t].sid = store[DeviceIdentity[cur[t]].identity_key].session.sid

\* the device whose DeviceIdentity carries identity key k
DeviceOfKey(k) == CHOOSE p \in AllPairs : DeviceIdentity[p].identity_key = k

\* C14: no session reuse across devices: distinct devices resolve to distinct
\* store keys; the session stored under a device's key was created for that
\* device; the session a call writes or encrypts with belongs to the device it
\* is working on; every envelope of a result is made with a session of the
\* device it is addressed to.
C14_NoSessionReuseAcrossDevices ==
  /\ \A p, q \in AllPairs :
        /\ p # q
        /\ has_session(store, DeviceIdentity[p].identity_key)
        /\ has_session(store, DeviceIdentity[q].identity_key)
        => /\ DeviceIdentity[p].identity_key # DeviceIdentity[q].identity_key
           /\ get_session(store, DeviceIdentity[p].identity_key).peer
                # get_session(store, DeviceIdentity[q].identity_key).peer
  /\ \A k \in IdentityKeys : has_session(store, k) => get_session(store, k).peer = k
  /\ \A t \in Tasks :
        /\ pc[t] \in {"add", "persist"} =>
              newsess[t].peer = DeviceIdentity[cur[t]].identity_key
        /\ pc[t] = "persist" =>
              /\ ciphertext[t].peer = DeviceIdentity[cur[t]].identity_key
              /\ ciphertext[t].plaintext.recipient = cur[t][1]
        /\ \A k \in DOMAIN result[t] :
              /\ result[t][k].ciphertext[k].peer = k
              /\ result[t][k].ciphertext[k].plaintext.recipient = DeviceOfKey(k)[1]

\* two devices of one user have sessions and a call holds envelopes for both
C14_Witness ==
  /\ has_session(store, "ik1") /\ has_session(store, "ik2")
  /\ \E t \in Tasks : {"ik1", "ik2"} \subseteq DOMAIN result[t]

\* identity keys of a set of (user_id, device_id) pairs
KeysOf(ps) == {DeviceIdentity[p].identity_key : p \in ps}

\* C15: encrypt_for runs establishment once for the whole recipient set and
\* then the Encryptor once per device with a usable session: when it is about
\* to return, its result holds an envelope for every targeted device that had
\* a session when checked or got one from this call, and only for targeted
\* devices with a stored session; a device that failed establishment (bad
\* signature, no key offered, left out of the response) is absent and never
\* makes the call fail.
C15_EncryptForResult ==
  \A t \in Tasks :
    /\ nclaims[t] <= 1
    /\ outcome[t] # "KeyError:popitem"
    /\ pc[t] = "encrypt" /\ etodo[t] = <<>> =>
          /\ KeysOf((PairsOf(users[t]) \ reported[t]) \cup created[t])
                \subseteq DOMAIN result[t]
          /\ DOMAIN result[t] \subseteq
                {k \in KeysOf(PairsOf(users[t])) : has_session(store, k)}

\* C16: every envelope the Encryptor returns has exactly one ciphertext
\* entry, keyed by the identity_key of the recipient argument, which is the
\* key the session is persisted under; its sender_key is the local account's
\* identity_key; the plaintext it encrypts carries the recipient's user id and
\* the recipient's signing key as recipient_keys.ed25519.
C16_EnvelopeShape ==
  /\ [](\A t \in Tasks : \A k \in DOMAIN result[t] :
          LET env == result[t][k]
              recipient == DeviceIdentity[DeviceOfKey(k)]
          IN /\ DOMAIN env.ciphertext = {k}
             /\ env.sender_key = AccountIdentityKey
             /\ env.ciphertext[k].plaintext.recipient = recipient.user_id
             /\ env.ciphertext[k].plaintext.recipient_keys.ed25519 = recipient.signing_key
             /\ env.ciphertext[k].plaintext.sender = ClientMxid
             /\ env.ciphertext[k].plaintext.keys.ed25519 = AccountSigningKey
             /\ has_session(store, k))
  /\ [][\A t \in Tasks :
          pc[t] = "persist" /\ pc'[t] = "encrypt" =>
            LET recipient == DeviceIdentity[cur[t]]
                k == recipient.identity_key
            IN /\ k \in DOMAIN result'[t]
               /\ DOMAIN result'[t][k].ciphertext = {k}
               /\ result'[t][k].ciphertext[k].plaintext.recipient = recipient.user_id
               /\ result'[t][k].ciphertext[k].plaintext.recipient_keys.ed25519
                     = recipient.signing_key
               /\ store'[k].session = newsess[t]
               /\ store'[k].session.sid = result'[t][k].ciphertext[k].sid]_vars

\* a call holds an envelope for the device of the second user
C16_Witness ==
  \E t \in Tasks :
    /\ "ik3" \in DOMAIN result[t]
    /\ result[t]["ik3"].ciphertext["ik3"].plaintext.recipient = "u2"
    /\ result[t]["ik3"].ciphertext["ik3"].plaintext.recipient_keys.ed25519 = "sk3"

\* C17: the per-device lifecycle is monotone: once the store holds a session
\* for k no step returns k to NoSession; a completed encrypt writes the
\* advanced ratchet under the recipient's key and touches no other key nor
\* the number of sessions added under it; a step that rejects a key for a
\* failed verification changes neither the store nor the sessions made, so
\* the device stays without a session.
C17_LifecycleMonotone ==
  [][/\ \A k \in IdentityKeys : has_session(store, k) => has_session(store', k)
     /\ \A t \in Tasks :
          /\ pc[t] = "persist" /\ pc'[t] = "encrypt" =>
                LET k == DeviceIdentity[cur[t]].identity_key
                IN /\ \A j \in IdentityKeys \ {k} : store'[j] = store[j]
                   /\ store'[k].count = store[k].count
                   /\ store'[k].session.peer = k
                   /\ store'[k].session.ratchet = ciphertext[t].n + 1
          /\ rejected'[t] # rejected[t] /\ pc'[t] = "process" =>
                /\ store' = store
                /\ made' = made
                /\ \A e \in rejected'[t] \ rejected[t] :
                      ~has_session(store, DeviceIdentity[e[1]].identity_key)
                        => ~has_session(store', DeviceIdentity[e[1]].identity_key)]_vars

\* one device's stored session has been advanced by an encrypt while another
\* device, just rejected for its signature, has no session
C17_Witness ==
  /\ \E k \in IdentityKeys : has_session(store, k) /\ store[k].session.ratchet >= 1
  /\ \E t \in Tasks : \E e \in rejected[t] :
        ~has_session(store, DeviceIdentity[e[1]].identity_key)

\* C18: the Establisher creates and stores sessions only for devices it put
\* into its own claim request: whatever the response holds, an entry for a
\* device that was not requested in this call never ends the batch with an
\* exception, and every session the call creates or stores is for a device
\* whose has_session read returned False in this call.
C18_OnlyRequestedDevices ==
  \A t \in Tasks :
    /\ outcome[t] # "KeyError:users"
    /\ {e[1] : e \in accepted[t]} \subseteq reported[t]
    /\ created[t] \subseteq reported[t]

\* C19: for every transaction_id the events of the transaction are handed to
\* the event handlers by at most one request, over any sequence and any
\* interleaving of authorized requests, two requests with the same id in
\* flight at the same time included.
C19_DispatchedAtMostOnce ==
  \A x \in TxnIds : dispatched[x] <= 1

\* connection c has just received a request
Received(c) == conn'[c].seq # conn[c].seq

\* C20: an id enters the processed set only through an authorized request
\* whose body was accepted; a request answered 401 or 400 creates no handler
\* task and leaves the set and the dispatch record unchanged, and an
\* authorized request with an id that is not in the set goes on to read its
\* body; no id ever leaves the set; an authorized request that arrives with
\* an id of the set is answered 200 at once and dispatches nothing.
C20_ProcessedSetDiscipline ==
  /\ [](\A c \in Conns :
          /\ conn[c].pc = "json" => conn[c].auth
          /\ conn[c].status \in {400, 401} => conn[c].sent = 0
          /\ conn[c].pc = "done" /\ conn[c].status = 200 =>
                conn[c].auth /\ conn[c].txn \in transactions)
  /\ [][/\ transactions \subseteq transactions'
        /\ \A x \in transactions' \ transactions :
              \E c \in Conns :
                 /\ conn[c].pc = "json" /\ conn[c].txn = x /\ conn[c].auth
                 /\ conn'[c].pc = "done" /\ conn'[c].status = 200
        /\ \A c \in Conns :
              /\ conn'[c] # conn[c] /\ conn'[c].status \in {400, 401} =>
                    transactions' = transactions /\ dispatched' = dispatched
              /\ Received(c) /\ conn'[c].auth =>
                    IF conn'[c].txn \in transactions
                    THEN /\ conn'[c].pc = "done"
                         /\ conn'[c].status = 200
                         /\ conn'[c].sent = 0
                         /\ dispatched' = dispatched
                         /\ transactions' = transactions
                    ELSE conn'[c].pc = "json"]_vars

\* a request was answered 400, a later one with the same id was processed and
\* dispatched, and the one after it was answered 200 without dispatching
C20_Witness ==
  \E c, d \in Conns :
    /\ conn[c].status = 400 /\ conn[c].seq = 1
    /\ conn[d].status = 200 /\ conn[d].seq = 3 /\ conn[d].sent = 0
    /\ conn[d].txn = conn[c].txn
    /\ conn[d].txn \in transactions
    /\ dispatched[conn[d].txn] = 1

====
